---- MODULE Spec2Model ----
(***************************************************************************)
(* Model of executor/executor.go: the Executor's pool of ExecutorClients,  *)
(* the UpdateClientLoop monitor, the retrying height query, the light      *)
(* block builder and the cached validators.                                *)
(*                                                                         *)
(* Conventions.  clientIdx and loop indices are 0-based as in the Go code; *)
(* a Go slice s is a TLA+ sequence and s[i] in Go is s[i+1] here.  uint64  *)
(* values are kept modulo Modulus, a scaled-down 2^64.  A Go panic in any  *)
(* goroutine ends the process: phase becomes "crashed" and nothing runs.   *)
(***************************************************************************)
EXTENDS Integers, Sequences, FiniteSets, TLC

\* ------------------------------------------------------------------ bounds
\* Longest address list the configuration may hold.
MaxClients == 2
\* Last instant of the wall clock.
MaxNow == 3
\* Width in bits of the scaled-down uint64 / int64.
UintBits == 3

Modulus == 2 ^ UintBits
\* The int64 values a node can put in SyncInfo.LatestBlockHeight.
Int64 == (0 - Modulus \div 2) .. (Modulus \div 2 - 1)
\* uint64(x) of an int64 x.
Uint64(x) == x % Modulus

\* ------------------------------------------------------- program constants
\* executor.FallBehindThreshold (block count), scaled to the model's width.
FallBehindThreshold == 2
\* common.RtyAttNum, the retry.Attempts budget of common.RtyAttem.
RtyAttNum == 5
\* common.RtyErr is retry.LastErrorOnly(true).
RtyErrLastErrorOnly == TRUE
\* executor.DataSeedDenyServiceThreshold (seconds), scaled to clock ticks.
DataSeedDenyServiceThreshold == 1

NoErr == "nil"
Errs == {"e1", "e2"}

VARIABLES
    phase,              \* "aborted": construction panicked; "running"; "crashed": a goroutine panicked
    config,             \* cfg.GreenfieldConfig: [RPCAddrs, GRPCAddrs]
    greenfieldClients,  \* Executor.greenfieldClients
    clientIdx,          \* Executor.clientIdx
    mutex,              \* Executor.mutex: [readers, writer]
    mon,                \* the UpdateClientLoop goroutine
    now,                \* the wall clock, in ticks
    alerts,             \* Providers logged "not accessable" in the current tick
    fg,                 \* the foreground goroutine calling into the Executor
    validators,         \* Executor.validators, a slice header: [ptr, len]
    rf,                 \* the UpdateCachedLatestValidatorsLoop goroutine
    hist                \* history: what the current tick and the last calls did

vars == <<phase, config, greenfieldClients, clientIdx, mutex, mon, now, alerts, fg,
          validators, rf, hist>>

\* -------------------------------------------------------------- construction
\* The i-th status (rpc) address and the i-th query (grpc) address.
RpcAddr(i) == <<"rpc", i>>
GrpcAddr(i) == <<"grpc", i>>

\* initGreenfieldClients indexes grpcAddrs[i] for every i < len(rpcAddrs):
\* it panics (index out of range) exactly when grpcAddrs is the shorter list.
initPanics(rpcAddrs, grpcAddrs) == Len(grpcAddrs) < Len(rpcAddrs)

initGreenfieldClients(rpcAddrs, grpcAddrs) ==
    [i \in 1..Len(rpcAddrs) |->
        [rpcClient  |-> rpcAddrs[i],
         txClient   |-> grpcAddrs[i],
         authClient |-> grpcAddrs[i],
         Provider   |-> rpcAddrs[i],
         Height     |-> 0,
         UpdatedAt  |-> 0]]

\* One retry.Do run: n is retry.Do's attempt counter, calls the number of
\* times the closure ran, onRetry the number of OnRetry callbacks, errorLog
\* retry.Do's record of errors, latestHeight the captured named result, err
\* what retry.Do returned.
RetryIdle == [n |-> 0, calls |-> 0, onRetry |-> 0, latestHeight |-> 0,
              errorLog |-> <<>>, done |-> FALSE, err |-> NoErr]

MonIdle == [pc |-> "sleep", idx |-> 0, r |-> RetryIdle,
            highestHeight |-> 0, highestIdx |-> 0]

\* The foreground goroutine: op is the exported call in progress, stage counts
\* its accessor calls, client is the channel the last accessor returned, r the
\* retry.Do run, trace the node answers received so far, ret the results.
FgIdle == [pc |-> "idle", op |-> "none", arg |-> 0, stage |-> 0, client |-> <<>>,
           r |-> RetryIdle, trace |-> <<>>, hdr |-> <<>>, ret |-> <<>>]

\* A slice value is its header: ptr stands for the backing array (the
\* sequence stored there) and len is the length word.  The nil slice.
NilSlice == [ptr |-> <<>>, len |-> 0]
SliceOf(array) == [ptr |-> array, len |-> Len(array)]
Words == {"ptr", "len"}

\* The refresh goroutine: client is the channel its getRpcClient returned,
\* val the slice it fetched, written the words of e.validators it has stored
\* so far, err the error of its last fetch.
RfIdle == [pc |-> "sleep", client |-> <<>>, val |-> NilSlice, written |-> {},
           err |-> NoErr]

\* Nothing recorded yet.  Of the current monitor tick: active is clientIdx and
\* before the handles when the tick began, ok the indices read successfully
\* so far, got what the last finished height query returned.  Of the foreground calls: prev is what the last call returned, cur
\* the events since the current call began, old the events between the
\* beginning of the call before and the beginning of the current one.
HistIdle == [active |-> 0, before |-> <<>>, ok |-> {}, got |-> <<>>,
             prev |-> <<>>, old |-> {}, cur |-> {}]

NewGreenfieldExecutor(rpcAddrs, grpcAddrs) ==
    /\ config = [RPCAddrs |-> rpcAddrs, GRPCAddrs |-> grpcAddrs]
    /\ clientIdx = 0
    /\ IF initPanics(rpcAddrs, grpcAddrs)
       THEN phase = "aborted" /\ greenfieldClients = <<>>
       ELSE phase = "running"
            /\ greenfieldClients = initGreenfieldClients(rpcAddrs, grpcAddrs)
    /\ mutex = [readers |-> 0, writer |-> FALSE]
    /\ mon = MonIdle
    /\ now = 0
    /\ alerts = {}
    /\ fg = FgIdle
    /\ validators = NilSlice
    /\ rf = RfIdle
    /\ hist = HistIdle

\* The address lists a configuration may hold: any length up to MaxClients,
\* the two lengths independent of each other.
RPCAddrLists == {[i \in 1..n |-> RpcAddr(i)] : n \in 0..MaxClients}
GRPCAddrLists == {[i \in 1..n |-> GrpcAddr(i)] : n \in 0..MaxClients}

Init ==
    \E rpcAddrs \in RPCAddrLists, grpcAddrs \in GRPCAddrLists :
        NewGreenfieldExecutor(rpcAddrs, grpcAddrs)

Running == phase = "running"

\* ------------------------------------------------------------------ accessors
\* getRpcClient / getTxClient / getAuthClient: RLock, index the slice with
\* clientIdx, RUnlock (deferred).
Accessors == {"getRpcClient", "getTxClient", "getAuthClient"}

InRange(idx, clients) == 0 <= idx /\ idx < Len(clients)

\* The exported calls that read the cached validators.
CachedReaders == {"QueryCachedLatestValidators", "GetValidatorsBlsPublicKey"}

\* The accessor an exported call goes through.
AccessorOf(op) == IF op \in Accessors THEN op ELSE "getRpcClient"

ChannelOf(client, op) ==
    CASE AccessorOf(op) = "getRpcClient"  -> client.rpcClient
      [] AccessorOf(op) = "getTxClient"   -> client.txClient
      [] AccessorOf(op) = "getAuthClient" -> client.authClient

\* Where the caller of the accessor continues once it has the channel.
AfterRead(f) ==
    CASE f.op \in Accessors -> "done"
      [] f.op = "GetLatestBlockHeightWithRetry" -> "attempt"
      [] f.op = "QueryTendermintLightBlock" ->
            IF f.stage = 0 THEN "validators" ELSE "commit"
      [] f.op \in CachedReaders -> "fetch"

FgCallAccessor ==
    /\ Running
    /\ fg.pc = "idle"
    /\ \E op \in Accessors : fg' = [FgIdle EXCEPT !.pc = "rlock", !.op = op]
    /\ UNCHANGED <<phase, config, greenfieldClients, clientIdx, mutex, mon, now, alerts, validators, rf>>

\* e.mutex.RLock(): waits while the writer holds the lock.
FgRLock ==
    /\ Running
    /\ fg.pc = "rlock"
    /\ ~mutex.writer
    /\ mutex' = [mutex EXCEPT !.readers = @ + 1]
    /\ fg' = [fg EXCEPT !.pc = "read"]
    /\ UNCHANGED <<phase, config, greenfieldClients, clientIdx, mon, now, alerts, validators, rf>>

\* An accessor that balances the load: each call moves clientIdx on to the
\* next handle.
FgReadRoundRobin ==
    /\ Running
    /\ fg.pc = "read"
    /\ IF InRange(clientIdx, greenfieldClients)
       THEN /\ LET ch == ChannelOf(greenfieldClients[clientIdx + 1], fg.op) IN
               fg' = [fg EXCEPT !.pc = AfterRead(fg), !.client = ch,
                        !.ret = IF fg.op \in Accessors THEN <<ch>> ELSE @]
            /\ mutex' = [mutex EXCEPT !.readers = @ - 1]
            /\ clientIdx' = (clientIdx + 1) % Len(greenfieldClients)
            /\ UNCHANGED phase
       ELSE /\ phase' = "crashed"
            /\ UNCHANGED <<fg, mutex, clientIdx>>
    /\ UNCHANGED <<config, greenfieldClients, mon, now, alerts, validators, rf>>

\* return e.greenfieldClients[e.clientIdx].<channel>, then the deferred RUnlock.
FgRead ==
    /\ Running
    /\ fg.pc = "read"
    /\ IF InRange(clientIdx, greenfieldClients)
       THEN /\ LET ch == ChannelOf(greenfieldClients[clientIdx + 1], fg.op) IN
               fg' = [fg EXCEPT !.pc = AfterRead(fg), !.client = ch,
                        !.ret = IF fg.op \in Accessors THEN <<ch>> ELSE @]
            /\ mutex' = [mutex EXCEPT !.readers = @ - 1]
            /\ UNCHANGED phase
       ELSE /\ phase' = "crashed"
            /\ UNCHANGED <<fg, mutex>>
    /\ UNCHANGED <<config, greenfieldClients, clientIdx, mon, now, alerts, validators, rf>>

FgReturn ==
    /\ Running
    /\ fg.pc = "done"
    /\ fg' = FgIdle
    /\ UNCHANGED <<phase, config, greenfieldClients, clientIdx, mutex, mon, now, alerts, validators, rf>>

\* ------------------------------------------------------------ height query
\* A node's answer to client.Status: an error, or a SyncInfo.LatestBlockHeight.
StatusOk(h) == [err |-> NoErr, LatestBlockHeight |-> h]
StatusErr(e) == [err |-> e, LatestBlockHeight |-> 0]
StatusResponses(heights, errs) ==
    {StatusOk(h) : h \in heights} \cup {StatusErr(e) : e \in errs}

\* getLatestBlockHeight: (0, err) on failure, (uint64(height), nil) otherwise.
getLatestBlockHeight(status) ==
    IF status.err # NoErr
    THEN [height |-> 0, err |-> status.err]
    ELSE [height |-> Uint64(status.LatestBlockHeight), err |-> NoErr]

\* retry.Do keeping the first error in its slot instead of the last.
RetryStepFirstError(r, status) ==
    LET q  == getLatestBlockHeight(status)
        r1 == [r EXCEPT !.calls = @ + 1, !.latestHeight = q.height]
    IN  IF q.err # NoErr
        THEN LET r2 == [r1 EXCEPT !.errorLog = IF @ = <<>> THEN <<q.err>> ELSE @,
                                  !.onRetry = @ + 1]
             IN  IF r.n = RtyAttNum - 1
                 THEN [r2 EXCEPT !.done = TRUE, !.err = r2.errorLog[1]]
                 ELSE [r2 EXCEPT !.n = @ + 1]
        ELSE [r1 EXCEPT !.done = TRUE, !.err = NoErr]

\* One iteration of retry.Do's loop around the closure of
\* getLatestBlockHeightWithRetry, under the options RtyAttem, RtyDelay and
\* RtyErr.  The closure assigns latestHeight and err from
\* getLatestBlockHeight.  On an error retry.Do records it (with
\* LastErrorOnly in its single slot, overwriting; otherwise appended to the
\* list), runs OnRetry, and breaks after attempt RtyAttNum-1, returning the
\* slot (or the whole list); else it waits RtyDelay and goes round.  On
\* success retry.Do returns nil at once.
RetryStep(r, status) ==
    LET q  == getLatestBlockHeight(status)
        r1 == [r EXCEPT !.calls = @ + 1, !.latestHeight = q.height]
    IN  IF q.err # NoErr
        THEN LET r2 == [r1 EXCEPT !.errorLog = IF RtyErrLastErrorOnly
                                               THEN <<q.err>> ELSE Append(@, q.err),
                                  !.onRetry = @ + 1]
             IN  IF r.n = RtyAttNum - 1
                 THEN [r2 EXCEPT !.done = TRUE,
                                 !.err = IF RtyErrLastErrorOnly
                                         THEN r2.errorLog[1] ELSE r2.errorLog]
                 ELSE [r2 EXCEPT !.n = @ + 1]
        ELSE [r1 EXCEPT !.done = TRUE, !.err = NoErr]

\* What getLatestBlockHeightWithRetry returns: the return statement's
\* operand latestHeight is loaded before retry.Do has run (always 0).
RetryResultEarlyLoad(r) == <<0, r.err>>

\* What getLatestBlockHeightWithRetry returns: (latestHeight, the error of
\* retry.Do), latestHeight being read once retry.Do has returned.
RetryResult(r) == <<r.latestHeight, r.err>>

\* GetLatestBlockHeightWithRetry(): e.getLatestBlockHeightWithRetry(e.getRpcClient())
FgCallHeight ==
    /\ Running
    /\ fg.pc = "idle"
    /\ fg' = [FgIdle EXCEPT !.pc = "rlock", !.op = "GetLatestBlockHeightWithRetry"]
    /\ UNCHANGED <<phase, config, greenfieldClients, clientIdx, mutex, mon, now, alerts, validators, rf>>

\* The foreground height query recording a height it read in the active
\* handle, as the monitor does.
FgAttemptRecording(responses) ==
    /\ Running
    /\ fg.pc = "attempt"
    /\ \E status \in responses :
        LET r == RetryStep(fg.r, status) IN
        /\ fg' = [fg EXCEPT !.r = r,
                            !.trace = Append(@, status),
                            !.pc = IF r.done THEN "done" ELSE "attempt",
                            !.ret = IF r.done THEN RetryResult(r) ELSE @]
        /\ greenfieldClients' =
               IF r.done /\ r.err = NoErr
               THEN [greenfieldClients EXCEPT ![clientIdx + 1].Height = r.latestHeight]
               ELSE greenfieldClients
    /\ UNCHANGED <<phase, config, clientIdx, mutex, mon, now, alerts, validators, rf>>

\* One attempt of the foreground height query against the channel obtained.
FgAttempt(responses) ==
    /\ Running
    /\ fg.pc = "attempt"
    /\ \E status \in responses :
        LET r == RetryStep(fg.r, status) IN
        fg' = [fg EXCEPT !.r = r,
                         !.trace = Append(@, status),
                         !.pc = IF r.done THEN "done" ELSE "attempt",
                         !.ret = IF r.done THEN RetryResult(r) ELSE @]
    /\ UNCHANGED <<phase, config, greenfieldClients, clientIdx, mutex, mon, now, alerts, validators, rf>>

\* ------------------------------------------------ QueryTendermintLightBlock
\* A node's answer to Validators(height): an error (the result pointer is
\* nil), or the validator set of that height; encodable tells whether
\* ValidatorSet.ToProto accepts it.
ValidatorsOk(client, height, encodable) ==
    [err |-> NoErr, from |-> client, height |-> height, encodable |-> encodable]
ValidatorsErr(e) == [err |-> e]
\* A node's answer to Commit(height): an error, or the signed header.
CommitOk(client, height) == [err |-> NoErr, from |-> client, height |-> height]
CommitErr(e) == [err |-> e]

NilBytes == <<>>
ProtoErr == "proto"
\* protoBlock.Marshal(): the bytes stand for the record they encode.
Marshal(signedHeader, validatorSet) == <<"LightBlock", signedHeader, validatorSet>>

\* Lines 227-243 with the error test made on the validators' error alone: a
\* failed commit leaves commit nil, and &commit.SignedHeader panics.
buildLightBlockCheckingValidatorsErr(valRes, commit) ==
    IF valRes.err # NoErr
    THEN [panic |-> FALSE, ret |-> <<NilBytes, valRes.err>>]
    ELSE IF commit.err # NoErr
    THEN [panic |-> TRUE, ret |-> <<>>]
    ELSE IF ~valRes.encodable
    THEN [panic |-> FALSE, ret |-> <<NilBytes, ProtoErr>>]
    ELSE [panic |-> FALSE,
          ret |-> <<Marshal([from |-> commit.from, height |-> commit.height],
                            [from |-> valRes.from, height |-> valRes.height]),
                    NoErr>>]

\* Lines 226-243 once both answers are in.  The second := assigns the commit's
\* error to the same err, so the validators' error is lost: err is the
\* commit's error alone.  With err nil, validators.Validators dereferences the
\* validators result, a nil pointer when that query failed.
buildLightBlock(valRes, commit) ==
    LET err == commit.err IN
    IF err # NoErr
    THEN [panic |-> FALSE, ret |-> <<NilBytes, err>>]
    ELSE IF valRes.err # NoErr
    THEN [panic |-> TRUE, ret |-> <<>>]
    ELSE IF ~valRes.encodable
    THEN [panic |-> FALSE, ret |-> <<NilBytes, ProtoErr>>]
    ELSE [panic |-> FALSE,
          ret |-> <<Marshal([from |-> commit.from, height |-> commit.height],
                            [from |-> valRes.from, height |-> valRes.height]),
                    NoErr>>]

\* The heights a caller asks a light block for.
BlockHeights == {1, 2}

FgCallLightBlock ==
    /\ Running
    /\ fg.pc = "idle"
    /\ \E height \in BlockHeights :
        fg' = [FgIdle EXCEPT !.pc = "rlock", !.op = "QueryTendermintLightBlock",
                             !.arg = height]
    /\ UNCHANGED <<phase, config, greenfieldClients, clientIdx, mutex, mon, now, alerts, validators, rf>>

\* e.getRpcClient().Validators(ctx, &height, nil, nil) answers; the call goes
\* on to its second e.getRpcClient().
FgValidators ==
    /\ Running
    /\ fg.pc = "validators"
    /\ \E answer \in {ValidatorsOk(fg.client, fg.arg, enc) : enc \in BOOLEAN}
                     \cup {ValidatorsErr(e) : e \in Errs} :
        fg' = [fg EXCEPT !.trace = Append(@, answer), !.stage = 1, !.pc = "rlock"]
    /\ UNCHANGED <<phase, config, greenfieldClients, clientIdx, mutex, mon, now, alerts, validators, rf>>

\* e.getRpcClient().Commit(ctx, &height) answers, and the rest of the function runs.
FgCommit ==
    /\ Running
    /\ fg.pc = "commit"
    /\ \E answer \in {CommitOk(fg.client, fg.arg)} \cup {CommitErr(e) : e \in Errs} :
        LET out == buildLightBlock(fg.trace[1], answer) IN
        /\ fg' = [fg EXCEPT !.trace = Append(@, answer),
                            !.pc = IF out.panic THEN "panic" ELSE "done",
                            !.ret = out.ret]
        /\ phase' = IF out.panic THEN "crashed" ELSE phase
    /\ UNCHANGED <<config, greenfieldClients, clientIdx, mutex, mon, now, alerts, validators, rf>>

\* ----------------------------------------------------------- cached validators
\* Validators as the nodes report them: an address and a BLS key (bytes).
V1 == [Address |-> "a1", RelayerBlsKey |-> <<10, 255>>]
V2 == [Address |-> "a2", RelayerBlsKey |-> <<0>>]
V3 == [Address |-> "a3", RelayerBlsKey |-> <<171>>]
\* The validator lists a node may answer Validators(nil) with.
ValidatorArrays == {<<>>, <<V1>>, <<V2, V3>>}
LatestOk(array) == [err |-> NoErr, Validators |-> array]
LatestErr(e) == [err |-> e, Validators |-> <<>>]
LatestAnswers == {LatestOk(a) : a \in ValidatorArrays} \cup {LatestErr(e) : e \in Errs}
LatestErrors == {LatestErr(e) : e \in Errs}
\* Nodes whose validator data does not change: the node behind a status
\* channel always gives the same answer, the first node one validator, the
\* second node two others, any further node an error.
NodeLatest(client) ==
    CASE client = RpcAddr(1) -> LatestOk(<<V1>>)
      [] client = RpcAddr(2) -> LatestOk(<<V2, V3>>)
      [] OTHER -> LatestErr("e1")

\* queryLatestValidators once Validators(nil) has answered: (nil, err) or
\* (validators.Validators, nil).
queryLatestValidators(answer) ==
    IF answer.err # NoErr
    THEN <<NilSlice, answer.err>>
    ELSE <<SliceOf(answer.Validators), NoErr>>

\* hex.EncodeToString
HexDigits == <<"0", "1", "2", "3", "4", "5", "6", "7",
               "8", "9", "a", "b", "c", "d", "e", "f">>
RECURSIVE EncodeToString(_)
EncodeToString(bytes) ==
    IF bytes = <<>> THEN <<>>
    ELSE <<HexDigits[(Head(bytes) \div 16) + 1], HexDigits[(Head(bytes) % 16) + 1]>>
         \o EncodeToString(Tail(bytes))

\* The elements a range over the slice header h visits that lie inside the
\* backing array ptr stands for.
InArray(h) == IF h.len <= Len(h.ptr) THEN h.len ELSE Len(h.ptr)
\* Lines 291-295: the keys of the validators of a slice whose header is h;
\* garbage stands for what a read past the backing array yields.
BlsKeys(h, garbage) ==
    [i \in 1..h.len |->
        IF i <= InArray(h) THEN EncodeToString(h.ptr[i].RelayerBlsKey) ELSE garbage]

\* The loop body of UpdateCachedLatestValidatorsLoop storing whatever the
\* query returned, before looking at err.
refreshAlwaysStores(answer) ==
    [store |-> TRUE, val |-> queryLatestValidators(answer)[1],
     err |-> queryLatestValidators(answer)[2]]

\* Lines 277-282: on an error the loop logs and continues, otherwise it
\* assigns the fetched slice to e.validators.
refresh(answer) ==
    LET q == queryLatestValidators(answer) IN
    IF q[2] # NoErr
    THEN [store |-> FALSE, val |-> NilSlice, err |-> q[2]]
    ELSE [store |-> TRUE, val |-> q[1], err |-> NoErr]

\* The ticker of UpdateCachedLatestValidatorsLoop fires:
\* queryLatestValidators starts with e.getRpcClient().
RfTick ==
    /\ Running
    /\ rf.pc = "sleep"
    /\ rf' = [rf EXCEPT !.pc = "rlock"]
    /\ UNCHANGED <<phase, config, greenfieldClients, clientIdx, mutex, mon, now,
                   alerts, fg, validators>>

RfRLock ==
    /\ Running
    /\ rf.pc = "rlock"
    /\ ~mutex.writer
    /\ mutex' = [mutex EXCEPT !.readers = @ + 1]
    /\ rf' = [rf EXCEPT !.pc = "read"]
    /\ UNCHANGED <<phase, config, greenfieldClients, clientIdx, mon, now, alerts,
                   fg, validators>>

RfRead ==
    /\ Running
    /\ rf.pc = "read"
    /\ IF InRange(clientIdx, greenfieldClients)
       THEN /\ rf' = [rf EXCEPT !.pc = "fetch",
                               !.client = greenfieldClients[clientIdx + 1].rpcClient]
            /\ mutex' = [mutex EXCEPT !.readers = @ - 1]
            /\ UNCHANGED phase
       ELSE /\ phase' = "crashed"
            /\ UNCHANGED <<rf, mutex>>
    /\ UNCHANGED <<config, greenfieldClients, clientIdx, mon, now, alerts, fg, validators>>

\* Validators(nil) answers the refresh loop.
RfFetch(answers) ==
    /\ Running
    /\ rf.pc = "fetch"
    /\ \E answer \in answers :
        LET out == refresh(answer) IN
        rf' = [rf EXCEPT !.pc = IF out.store THEN "store" ELSE "sleep",
                         !.val = out.val, !.err = out.err, !.written = {}]
    /\ UNCHANGED <<phase, config, greenfieldClients, clientIdx, mutex, mon, now,
                   alerts, fg, validators>>

\* e.validators = validators, with no lock: the header's words are stored one
\* at a time, in either order, and readers may run in between.
RfStoreWord ==
    /\ Running
    /\ rf.pc = "store"
    /\ \E w \in Words \ rf.written :
        /\ validators' = [validators EXCEPT ![w] = rf.val[w]]
        /\ rf' = [rf EXCEPT !.written = @ \cup {w},
                            !.pc = IF rf.written \cup {w} = Words
                                   THEN "sleep" ELSE "store"]
    /\ UNCHANGED <<phase, config, greenfieldClients, clientIdx, mutex, mon, now,
                   alerts, fg>>

\* A non-empty sequence is stored in the cache and no store is under way.
Stored == rf.pc # "store" /\ validators.len # 0

\* QueryCachedLatestValidators() or GetValidatorsBlsPublicKey() is called;
\* arg notes what the cache and the refresh loop were like at the call.
FgCallCached ==
    /\ Running
    /\ fg.pc = "idle"
    /\ \E op \in CachedReaders :
        fg' = [FgIdle EXCEPT !.pc = "len", !.op = op,
                             !.arg = [stored |-> Stored, refreshErr |-> rf.err]]
    /\ UNCHANGED <<phase, config, greenfieldClients, clientIdx, mutex, mon, now,
                   alerts, validators, rf>>

\* Line 264: len(e.validators) != 0 loads the length word.
FgLoadLen ==
    /\ Running
    /\ fg.pc = "len"
    /\ fg' = [fg EXCEPT !.pc = IF validators.len # 0 THEN "load" ELSE "rlock"]
    /\ UNCHANGED <<phase, config, greenfieldClients, clientIdx, mutex, mon, now,
                   alerts, validators, rf>>

\* What the reader returns once it holds the slice h and the error err:
\* QueryCachedLatestValidators returns them; GetValidatorsBlsPublicKey returns
\* (nil, err) on an error and else ranges over the slice.  Reading past the
\* backing array either faults or yields garbage.
Garbage == "garbage"
readerOutcomes(op, h, err) ==
    IF op = "QueryCachedLatestValidators" \/ err # NoErr
    THEN {[panic |-> FALSE, ret |-> <<IF err # NoErr THEN NilSlice ELSE h, err>>]}
    ELSE IF h.len <= Len(h.ptr)
    THEN {[panic |-> FALSE, ret |-> <<BlsKeys(h, Garbage), NoErr>>]}
    ELSE {[panic |-> FALSE, ret |-> <<BlsKeys(h, Garbage), NoErr>>],
          [panic |-> TRUE, ret |-> <<>>]}

\* Line 265: return e.validators, nil loads the header's words one at a
\* time, in either order; with the last word the call returns.
FgLoadWord ==
    /\ Running
    /\ fg.pc = "load"
    /\ \E w \in Words \ DOMAIN fg.hdr :
        LET hdr == (w :> validators[w]) @@ fg.hdr IN
        IF DOMAIN hdr # Words
        THEN /\ fg' = [fg EXCEPT !.hdr = hdr]
             /\ UNCHANGED phase
        ELSE \E out \in readerOutcomes(fg.op, [ptr |-> hdr["ptr"], len |-> hdr["len"]], NoErr) :
             /\ fg' = [fg EXCEPT !.hdr = hdr, !.ret = out.ret,
                                 !.pc = IF out.panic THEN "panic" ELSE "done"]
             /\ phase' = IF out.panic THEN "crashed" ELSE phase
    /\ UNCHANGED <<config, greenfieldClients, clientIdx, mutex, mon, now, alerts,
                   validators, rf>>

\* Lines 267-271: the cache was empty, Validators(nil) answers the reader.
FgFetch(answers) ==
    /\ Running
    /\ fg.pc = "fetch"
    /\ \E answer \in answers :
        LET q == queryLatestValidators(answer) IN
        \E out \in readerOutcomes(fg.op, q[1], q[2]) :
            fg' = [fg EXCEPT !.trace = Append(@, answer), !.ret = out.ret, !.pc = "done"]
    /\ UNCHANGED <<phase, config, greenfieldClients, clientIdx, mutex, mon, now,
                   alerts, validators, rf>>

\* ------------------------------------------------------------ UpdateClientLoop
\* The scan of lines 207-214: highestHeight starts at 0, highestIdx at 0, and
\* a handle replaces them only when its Height is strictly greater.
RECURSIVE HighestFrom(_, _, _, _)
HighestFrom(clients, idx, highestHeight, highestIdx) ==
    IF idx >= Len(clients)
    THEN [highestHeight |-> highestHeight, highestIdx |-> highestIdx]
    ELSE IF clients[idx + 1].Height > highestHeight
         THEN HighestFrom(clients, idx + 1, clients[idx + 1].Height, idx)
         ELSE HighestFrom(clients, idx + 1, highestHeight, highestIdx)

\* The scan with >= for >: the last handle at the maximum wins.
RECURSIVE HighestLastWinsFrom(_, _, _, _)
HighestLastWinsFrom(clients, idx, highestHeight, highestIdx) ==
    IF idx >= Len(clients)
    THEN [highestHeight |-> highestHeight, highestIdx |-> highestIdx]
    ELSE IF clients[idx + 1].Height >= highestHeight
         THEN HighestLastWinsFrom(clients, idx + 1, clients[idx + 1].Height, idx)
         ELSE HighestLastWinsFrom(clients, idx + 1, highestHeight, highestIdx)

HighestLastWins(clients) == HighestLastWinsFrom(clients, 0, 0, 0)

\* The scan reporting the position of the highest handle counted from 1.
HighestOneBased(clients) ==
    [HighestFrom(clients, 0, 0, 0) EXCEPT !.highestIdx = @ + 1]

Highest(clients) == HighestFrom(clients, 0, 0, 0)

\* The fall-behind test with <= for <.
FallBehindAtThreshold(height, highestHeight) ==
    (height + FallBehindThreshold) % Modulus <= highestHeight

\* The fall-behind test with twice the margin.
FallBehindDoubleMargin(height, highestHeight) ==
    (height + 2 * FallBehindThreshold) % Modulus < highestHeight

\* e.greenfieldClients[e.clientIdx].Height+FallBehindThreshold < highestHeight,
\* the sum taken in uint64.
FallBehind(height, highestHeight) ==
    (height + FallBehindThreshold) % Modulus < highestHeight

\* time.Since(UpdatedAt).Seconds() > DataSeedDenyServiceThreshold
DenyService(client) == now - client.UpdatedAt > DataSeedDenyServiceThreshold

\* The ticker fires: a tick starts with the range loop over the handles.
MonTick ==
    /\ Running
    /\ mon.pc = "sleep"
    /\ mon' = [MonIdle EXCEPT !.pc = "collect"]
    /\ alerts' = {}
    /\ UNCHANGED <<phase, config, greenfieldClients, clientIdx, mutex, now, fg, validators, rf>>

\* Head of the range loop: the next handle's staleness check (lines 193-198),
\* or the end of the loop.
MonRange ==
    /\ Running
    /\ mon.pc = "collect"
    /\ IF mon.idx < Len(greenfieldClients)
       THEN /\ mon' = [mon EXCEPT !.pc = "query", !.r = RetryIdle]
            /\ alerts' = IF DenyService(greenfieldClients[mon.idx + 1])
                         THEN alerts \cup {greenfieldClients[mon.idx + 1].Provider}
                         ELSE alerts
       ELSE /\ mon' = [mon EXCEPT !.pc = "decide"]
            /\ UNCHANGED alerts
    /\ UNCHANGED <<phase, config, greenfieldClients, clientIdx, mutex, now, fg, validators, rf>>

\* The collect step without the continue of line 202: whatever retry.Do
\* returned, Height and UpdatedAt are assigned.
MonQueryNoContinue(responses) ==
    /\ Running
    /\ mon.pc = "query"
    /\ \E status \in responses :
        LET r == RetryStep(mon.r, status) IN
        IF ~r.done
        THEN /\ mon' = [mon EXCEPT !.r = r]
             /\ UNCHANGED greenfieldClients
        ELSE /\ mon' = [mon EXCEPT !.pc = "collect", !.idx = @ + 1, !.r = RetryIdle]
             /\ greenfieldClients' =
                    [greenfieldClients EXCEPT
                        ![mon.idx + 1].Height = r.latestHeight,
                        ![mon.idx + 1].UpdatedAt = now]
    /\ UNCHANGED <<phase, config, clientIdx, mutex, now, alerts, fg, validators, rf>>

\* The collect step with break for the continue of line 202: a failed query
\* ends the range loop.
MonQueryBreak(responses) ==
    /\ Running
    /\ mon.pc = "query"
    /\ \E status \in responses :
        LET r == RetryStep(mon.r, status) IN
        IF ~r.done
        THEN /\ mon' = [mon EXCEPT !.r = r]
             /\ UNCHANGED greenfieldClients
        ELSE IF r.err # NoErr
        THEN /\ mon' = [mon EXCEPT !.pc = "decide", !.r = RetryIdle]
             /\ UNCHANGED greenfieldClients
        ELSE /\ mon' = [mon EXCEPT !.pc = "collect", !.idx = @ + 1, !.r = RetryIdle]
             /\ greenfieldClients' =
                    [greenfieldClients EXCEPT
                        ![mon.idx + 1].Height = r.latestHeight,
                        ![mon.idx + 1].UpdatedAt = now]
    /\ UNCHANGED <<phase, config, clientIdx, mutex, now, alerts, fg, validators, rf>>

\* One attempt of getLatestBlockHeightWithRetry(greenfieldClient.rpcClient);
\* when retry.Do returns, lines 200-205: continue on error, else record
\* Height and UpdatedAt.
MonQuery(responses) ==
    /\ Running
    /\ mon.pc = "query"
    /\ \E status \in responses :
        LET r == RetryStep(mon.r, status) IN
        IF ~r.done
        THEN /\ mon' = [mon EXCEPT !.r = r]
             /\ UNCHANGED greenfieldClients
        ELSE /\ mon' = [mon EXCEPT !.pc = "collect", !.idx = @ + 1, !.r = RetryIdle]
             /\ greenfieldClients' =
                    IF r.err # NoErr
                    THEN greenfieldClients
                    ELSE [greenfieldClients EXCEPT
                            ![mon.idx + 1].Height = r.latestHeight,
                            ![mon.idx + 1].UpdatedAt = now]
    /\ UNCHANGED <<phase, config, clientIdx, mutex, now, alerts, fg, validators, rf>>

\* Lines 207-216: the scan for the highest handle and the fall-behind test;
\* indexing greenfieldClients[clientIdx] panics when out of range.
MonDecide ==
    /\ Running
    /\ mon.pc = "decide"
    /\ LET h == Highest(greenfieldClients) IN
       IF ~InRange(clientIdx, greenfieldClients)
       THEN /\ phase' = "crashed"
            /\ UNCHANGED mon
       ELSE /\ UNCHANGED phase
            /\ mon' = [mon EXCEPT
                        !.highestHeight = h.highestHeight,
                        !.highestIdx = h.highestIdx,
                        !.pc = IF FallBehind(greenfieldClients[clientIdx + 1].Height,
                                             h.highestHeight)
                               THEN "lock" ELSE "sleep"]
    /\ UNCHANGED <<config, greenfieldClients, clientIdx, mutex, now, alerts, fg, validators, rf>>

\* e.mutex.Lock() of a goroutine that does not wait for the readers to leave.
MonLockNoWait ==
    /\ Running
    /\ mon.pc = "lock"
    /\ ~mutex.writer
    /\ mutex' = [mutex EXCEPT !.writer = TRUE]
    /\ mon' = [mon EXCEPT !.pc = "switch"]
    /\ UNCHANGED <<phase, config, greenfieldClients, clientIdx, now, alerts, fg, validators, rf>>

\* e.mutex.Lock(): waits for the readers to leave.
MonLock ==
    /\ Running
    /\ mon.pc = "lock"
    /\ mutex.readers = 0 /\ ~mutex.writer
    /\ mutex' = [mutex EXCEPT !.writer = TRUE]
    /\ mon' = [mon EXCEPT !.pc = "switch"]
    /\ UNCHANGED <<phase, config, greenfieldClients, clientIdx, now, alerts, fg, validators, rf>>

\* The switch going round robin to the next handle instead of the highest.
MonSwitchNext ==
    /\ Running
    /\ mon.pc = "switch"
    /\ clientIdx' = (clientIdx + 1) % Len(greenfieldClients)
    /\ mon' = [mon EXCEPT !.pc = "unlock"]
    /\ UNCHANGED <<phase, config, greenfieldClients, mutex, now, alerts, fg, validators, rf>>

\* e.clientIdx = highestIdx
MonSwitch ==
    /\ Running
    /\ mon.pc = "switch"
    /\ clientIdx' = mon.highestIdx
    /\ mon' = [mon EXCEPT !.pc = "unlock"]
    /\ UNCHANGED <<phase, config, greenfieldClients, mutex, now, alerts, fg, validators, rf>>

\* e.mutex.Unlock(); the loop waits for the next tick.
MonUnlock ==
    /\ Running
    /\ mon.pc = "unlock"
    /\ mutex' = [mutex EXCEPT !.writer = FALSE]
    /\ mon' = [mon EXCEPT !.pc = "sleep"]
    /\ UNCHANGED <<phase, config, greenfieldClients, clientIdx, now, alerts, fg, validators, rf>>

\* The wall clock read by time.Now and time.Since moves on.
TimePasses ==
    /\ Running
    /\ now < MaxNow
    /\ now' = now + 1
    /\ UNCHANGED <<phase, config, greenfieldClients, clientIdx, mutex, mon, alerts, fg,
                   validators, rf>>

\* ------------------------------------------------------------------ history
\* A tick begins: the active index and the handles as they are, nothing read.
NoteTick ==
    hist' = [hist EXCEPT !.active = clientIdx, !.before = greenfieldClients,
                         !.ok = {}, !.got = <<>>]

\* The node answers an attempt of the monitor's height query with status:
\* when that ends the query, what it returned, and the index if it succeeded.
NoteQuery(status) ==
    LET r == RetryStep(mon.r, status) IN
    hist' = IF ~r.done THEN hist
            ELSE [hist EXCEPT !.got = RetryResult(r),
                              !.ok = IF r.err = NoErr THEN @ \cup {mon.idx} ELSE @]

\* A reader of the cache is called: the events since the call before began
\* are kept, those of the new call start empty.
NoteCall == hist' = [hist EXCEPT !.old = hist.cur, !.cur = {}]
\* The call returns: which call it was, what it returned, and whether it
\* fetched from a node; nothing is kept of a call during which the refresh
\* loop stored to the cache.
NoteReturn ==
    hist' = [hist EXCEPT !.prev = IF "store" \in hist.cur THEN <<>>
                                  ELSE [op |-> fg.op, ret |-> fg.ret,
                                        fetched |-> fg.trace # <<>>]]
\* The refresh loop stores a word of e.validators: the call before is
\* forgotten.
NoteStore == hist' = [hist EXCEPT !.prev = <<>>, !.old = {}, !.cur = {"store"}]
\* The monitor assigns clientIdx.
NoteSwitch ==
    hist' = [hist EXCEPT !.cur = IF clientIdx' # clientIdx THEN @ \cup {"switch"} ELSE @]

\* --------------------------------------------------------------- the pool
\* The actions leave hist alone: each specification says what it records.
\* Every node may answer a status query with any int64 height or with an error.
MonResponses == StatusResponses(Int64, {"e1"})

\* The heights around the threshold and around the top of uint64 (a negative
\* int64 converts to a uint64 near 2^64).
SampleHeights == {0 - 2, 0 - 1, 0, FallBehindThreshold, FallBehindThreshold + 1}
PoolResponses == StatusResponses(SampleHeights, {"e1"})

\* The monitor loop interleaved with foreground accessor calls.
NextPool ==
    \/ MonTick /\ UNCHANGED hist
    \/ MonRange /\ UNCHANGED hist
    \/ MonQuery(PoolResponses) /\ UNCHANGED hist
    \/ MonDecide /\ UNCHANGED hist
    \/ MonLock /\ UNCHANGED hist
    \/ MonSwitch /\ UNCHANGED hist
    \/ MonUnlock /\ UNCHANGED hist
    \/ FgCallAccessor /\ UNCHANGED hist
    \/ FgRLock /\ UNCHANGED hist
    \/ FgRead /\ UNCHANGED hist
    \/ FgReturn /\ UNCHANGED hist

SpecPool == Init /\ [][NextPool]_vars

\* The monitor loop alone, over every height a node can report.
NextMon ==
    \/ MonTick /\ UNCHANGED hist
    \/ MonRange /\ UNCHANGED hist
    \/ MonQuery(MonResponses) /\ UNCHANGED hist
    \/ MonDecide /\ UNCHANGED hist
    \/ MonLock /\ UNCHANGED hist
    \/ MonSwitch /\ UNCHANGED hist
    \/ MonUnlock /\ UNCHANGED hist

SpecMon == Init /\ [][NextMon]_vars

\* Foreground height queries against a fixed pool: each attempt is answered
\* with one of two errors or one of the sampled heights.
RetryResponses == StatusResponses({0 - 1, 0, FallBehindThreshold + 1}, Errs)

NextRetry ==
    \/ FgCallHeight /\ UNCHANGED hist
    \/ FgRLock /\ UNCHANGED hist
    \/ FgRead /\ UNCHANGED hist
    \/ FgAttempt(RetryResponses) /\ UNCHANGED hist
    \/ FgReturn /\ UNCHANGED hist

SpecRetry == Init /\ [][NextRetry]_vars

\* Foreground light-block calls against a fixed pool.
NextLight ==
    \/ FgCallLightBlock /\ UNCHANGED hist
    \/ FgRLock /\ UNCHANGED hist
    \/ FgRead /\ UNCHANGED hist
    \/ FgValidators /\ UNCHANGED hist
    \/ FgCommit /\ UNCHANGED hist
    \/ FgReturn /\ UNCHANGED hist

SpecLight == Init /\ [][NextLight]_vars

\* The refresh loop interleaved with foreground readers of the cache.
NextCache ==
    \/ RfTick /\ UNCHANGED hist
    \/ RfRLock /\ UNCHANGED hist
    \/ RfRead /\ UNCHANGED hist
    \/ RfFetch(LatestAnswers) /\ UNCHANGED hist
    \/ RfStoreWord /\ UNCHANGED hist
    \/ FgCallCached /\ UNCHANGED hist
    \/ FgLoadLen /\ UNCHANGED hist
    \/ FgLoadWord /\ UNCHANGED hist
    \/ FgRLock /\ UNCHANGED hist
    \/ FgRead /\ UNCHANGED hist
    \/ FgFetch(LatestAnswers) /\ UNCHANGED hist
    \/ FgReturn /\ UNCHANGED hist

SpecCache == Init /\ [][NextCache]_vars

\* The same, the nodes failing every refresh that follows the storing of a
\* non-empty sequence.
NextStale ==
    \/ RfTick /\ UNCHANGED hist
    \/ RfRLock /\ UNCHANGED hist
    \/ RfRead /\ UNCHANGED hist
    \/ RfFetch(IF validators.len # 0 THEN LatestErrors ELSE LatestAnswers) /\ UNCHANGED hist
    \/ RfStoreWord /\ UNCHANGED hist
    \/ FgCallCached /\ UNCHANGED hist
    \/ FgLoadLen /\ UNCHANGED hist
    \/ FgLoadWord /\ UNCHANGED hist
    \/ FgRLock /\ UNCHANGED hist
    \/ FgRead /\ UNCHANGED hist
    \/ FgFetch(LatestAnswers) /\ UNCHANGED hist
    \/ FgReturn /\ UNCHANGED hist

SpecStale == Init /\ [][NextStale]_vars

\* The monitor loop with the clock running, its ticks recorded.  A node
\* answers with an error or with a height at or well above zero.
TickHeights == {0, FallBehindThreshold + 1}
TickResponses == StatusResponses(TickHeights, {"e1"})

NextTicks ==
    \/ MonTick /\ NoteTick
    \/ MonRange /\ UNCHANGED hist
    \/ \E status \in TickResponses : MonQuery({status}) /\ NoteQuery(status)
    \/ MonDecide /\ UNCHANGED hist
    \/ MonLock /\ UNCHANGED hist
    \/ MonSwitch /\ UNCHANGED hist
    \/ MonUnlock /\ UNCHANGED hist
    \/ TimePasses /\ UNCHANGED hist

SpecTicks == Init /\ [][NextTicks]_vars

\* The monitor loop alone, its ticks recorded, and scheduled fairly: the
\* ticker keeps firing, the goroutine keeps running, and every attempt of a
\* height query ends (with an answer, or with an error at its 5 s timeout).
NextPoll ==
    \/ MonTick /\ NoteTick
    \/ MonRange /\ UNCHANGED hist
    \/ \E status \in TickResponses : MonQuery({status}) /\ NoteQuery(status)
    \/ MonDecide /\ UNCHANGED hist
    \/ MonLock /\ UNCHANGED hist
    \/ MonSwitch /\ UNCHANGED hist
    \/ MonUnlock /\ UNCHANGED hist

SpecPoll == Init /\ [][NextPoll]_vars /\ WF_vars(NextPoll)

\* The monitor loop alone, its ticks recorded, over the sampled heights: the
\* nodes may fail, stand still, advance by little or by much, or fall back.
NextHeal ==
    \/ MonTick /\ NoteTick
    \/ MonRange /\ UNCHANGED hist
    \/ \E status \in PoolResponses : MonQuery({status}) /\ NoteQuery(status)
    \/ MonDecide /\ UNCHANGED hist
    \/ MonLock /\ UNCHANGED hist
    \/ MonSwitch /\ UNCHANGED hist
    \/ MonUnlock /\ UNCHANGED hist

SpecHeal == Init /\ [][NextHeal]_vars

\* The monitor loop interleaved with foreground light-block calls.
NextBlock ==
    \/ MonTick /\ UNCHANGED hist
    \/ MonRange /\ UNCHANGED hist
    \/ MonQuery(TickResponses) /\ UNCHANGED hist
    \/ MonDecide /\ UNCHANGED hist
    \/ MonLock /\ UNCHANGED hist
    \/ MonSwitch /\ UNCHANGED hist
    \/ MonUnlock /\ UNCHANGED hist
    \/ FgCallLightBlock /\ UNCHANGED hist
    \/ FgRLock /\ UNCHANGED hist
    \/ FgRead /\ UNCHANGED hist
    \/ FgValidators /\ UNCHANGED hist
    \/ FgCommit /\ UNCHANGED hist
    \/ FgReturn /\ UNCHANGED hist

SpecBlock == Init /\ [][NextBlock]_vars

\* Everything together: the monitor loop, the refresh loop and a foreground
\* goroutine making any of the calls.  The nodes answer the monitor's height
\* query with one of two heights, the foreground's with the higher one, a
\* query for the latest validators with one list, and the two queries of a
\* light block, which is asked for at height 1, without an error.
AllStatus == StatusResponses(TickHeights, {})
AllLatest == {LatestOk(<<V1>>)}

NextAll ==
    \/ MonTick /\ UNCHANGED hist
    \/ MonRange /\ UNCHANGED hist
    \/ MonQuery(AllStatus) /\ UNCHANGED hist
    \/ MonDecide /\ UNCHANGED hist
    \/ MonLock /\ UNCHANGED hist
    \/ MonSwitch /\ UNCHANGED hist
    \/ MonUnlock /\ UNCHANGED hist
    \/ RfTick /\ UNCHANGED hist
    \/ RfRLock /\ UNCHANGED hist
    \/ RfRead /\ UNCHANGED hist
    \/ RfFetch(AllLatest) /\ UNCHANGED hist
    \/ RfStoreWord /\ UNCHANGED hist
    \/ FgCallAccessor /\ UNCHANGED hist
    \/ FgCallHeight /\ UNCHANGED hist
    \/ FgCallLightBlock /\ fg'.arg = 1 /\ UNCHANGED hist
    \/ FgCallCached /\ UNCHANGED hist
    \/ FgRLock /\ UNCHANGED hist
    \/ FgRead /\ UNCHANGED hist
    \/ FgAttempt({StatusOk(FallBehindThreshold + 1)}) /\ UNCHANGED hist
    \/ FgValidators /\ fg'.trace[1].err = NoErr /\ UNCHANGED hist
    \/ FgCommit /\ fg'.trace[2].err = NoErr /\ UNCHANGED hist
    \/ FgLoadLen /\ UNCHANGED hist
    \/ FgLoadWord /\ UNCHANGED hist
    \/ FgFetch(AllLatest) /\ UNCHANGED hist
    \/ FgReturn /\ UNCHANGED hist

SpecAll == Init /\ [][NextAll]_vars

\* The monitor loop, the refresh loop and a foreground goroutine calling
\* QueryCachedLatestValidators again and again, over nodes whose validator
\* data does not change; the calls are recorded.
NextIdem ==
    \/ MonTick /\ UNCHANGED hist
    \/ MonRange /\ UNCHANGED hist
    \/ MonQuery(AllStatus) /\ UNCHANGED hist
    \/ MonDecide /\ UNCHANGED hist
    \/ MonLock /\ UNCHANGED hist
    \/ MonSwitch /\ NoteSwitch
    \/ MonUnlock /\ UNCHANGED hist
    \/ RfTick /\ UNCHANGED hist
    \/ RfRLock /\ UNCHANGED hist
    \/ RfRead /\ UNCHANGED hist
    \/ RfFetch({NodeLatest(rf.client)}) /\ UNCHANGED hist
    \/ RfStoreWord /\ NoteStore
    \/ FgCallCached /\ fg'.op = "QueryCachedLatestValidators" /\ NoteCall
    \/ FgLoadLen /\ UNCHANGED hist
    \/ FgLoadWord /\ UNCHANGED hist
    \/ FgRLock /\ UNCHANGED hist
    \/ FgRead /\ UNCHANGED hist
    \/ FgFetch({NodeLatest(fg.client)}) /\ UNCHANGED hist
    \/ FgReturn /\ NoteReturn

SpecIdem == Init /\ [][NextIdem]_vars

TypeOK ==
    /\ phase \in {"aborted", "running", "crashed"}
    /\ clientIdx \in 0..MaxClients
    /\ mutex.readers \in 0..2
    /\ mon.pc \in {"sleep", "collect", "query", "decide", "lock", "switch", "unlock"}

\* ------------------------------------------------------------------ claims
SetMax(S) == CHOOSE x \in S : \A y \in S : y <= x
SetMin(S) == CHOOSE x \in S : \A y \in S : x <= y

\* The greatest recorded Height of the pool, and the lowest index holding it.
MaxHeight(clients) ==
    IF clients = <<>> THEN 0 ELSE SetMax({clients[i].Height : i \in 1..Len(clients)})
LowestMaxIdx(clients) ==
    SetMin({i - 1 : i \in {j \in 1..Len(clients) : clients[j].Height = MaxHeight(clients)}})

ActiveHeight == greenfieldClients[clientIdx + 1].Height

\* The monitor leaves its decide step without panicking.
DecideStep == mon.pc = "decide" /\ mon'.pc # "decide"
\* The monitor executes e.clientIdx = highestIdx.
SwitchStep == mon.pc = "switch" /\ mon'.pc = "unlock"

\* C1 as stated: for every pool NewGreenfieldExecutor returns, and after any
\* monitor ticks and accessor calls, 0 <= clientIdx < len(greenfieldClients).
C1_ActiveIndexValid ==
    phase # "aborted" => InRange(clientIdx, greenfieldClients)

\* C1 amended: for every pool of at least one handle that
\* NewGreenfieldExecutor returns, clientIdx stays a valid index whatever
\* monitor ticks and accessor calls happen, and no accessor or monitor step
\* panics on the index.
C1_ActiveIndexValidNonEmpty ==
    (phase # "aborted" /\ greenfieldClients # <<>>) =>
        (InRange(clientIdx, greenfieldClients) /\ phase # "crashed")

\* C1 witness: the monitor has switched to the last handle of a two-handle
\* pool and an accessor called afterwards has returned that handle's channel.
C1_Witness ==
    /\ Len(greenfieldClients) = 2
    /\ clientIdx = 1
    /\ mon.pc = "sleep"
    /\ fg.pc = "done"
    /\ fg.ret = <<greenfieldClients[2].txClient>>

\* C2 as stated: the decide step chooses to switch exactly when the active
\* handle's Height plus FallBehindThreshold (as integers) is below the highest
\* Height, so no lead up to the threshold ever switches.
C2_SwitchIffLeadExceedsThreshold ==
    [][DecideStep =>
        ((mon'.pc = "lock") <=>
            (ActiveHeight + FallBehindThreshold < MaxHeight(greenfieldClients)))]_vars

\* C2 amended: the decide step chooses to switch exactly when the uint64 sum
\* Height + FallBehindThreshold is below the highest Height recorded by this
\* tick's collect step; when the sum does not wrap that is exactly a lead
\* above the threshold; the switch goes to a handle holding the highest Height.
C2_SwitchIffUint64SumBelowHighest ==
    [][/\ DecideStep =>
            /\ (mon'.pc = "lock") <=>
                 ((ActiveHeight + FallBehindThreshold) % Modulus
                    < MaxHeight(greenfieldClients))
            /\ (ActiveHeight + FallBehindThreshold < Modulus) =>
                 ((mon'.pc = "lock") <=>
                    (MaxHeight(greenfieldClients) - ActiveHeight > FallBehindThreshold))
       /\ SwitchStep =>
            greenfieldClients[clientIdx' + 1].Height = MaxHeight(greenfieldClients)
      ]_vars

\* C2 witness: the decide step has chosen to switch on a lead of exactly
\* FallBehindThreshold + 1.
C2_Witness ==
    /\ mon.pc = "lock"
    /\ Len(greenfieldClients) = 2
    /\ clientIdx = 0
    /\ greenfieldClients[2].Height = greenfieldClients[1].Height + FallBehindThreshold + 1

\* C3: the highest-handle scan yields the lowest index among the handles
\* holding the maximum recorded Height, and a tick never moves clientIdx away
\* from that handle; with [A:200, B:200] and A active (no uint64 wrap of
\* Height + FallBehindThreshold) the decide step does not even take the
\* switch branch.
C3_TieBreakLowestIndex ==
    /\ [](Running /\ greenfieldClients # <<>>
            /\ mon.pc \in {"sleep", "lock", "switch", "unlock"}
          => /\ mon.highestIdx = LowestMaxIdx(greenfieldClients)
             /\ mon.highestHeight = MaxHeight(greenfieldClients))
    /\ [][clientIdx' # clientIdx => clientIdx # LowestMaxIdx(greenfieldClients)]_vars
    /\ [][(/\ DecideStep
            /\ clientIdx = LowestMaxIdx(greenfieldClients)
            /\ ActiveHeight + FallBehindThreshold < Modulus)
          => mon'.pc = "sleep"]_vars

\* C3 witness: a tick has ended with two handles tied at a nonzero maximum and
\* the first of them active.
C3_Witness ==
    /\ mon.pc = "sleep"
    /\ Len(greenfieldClients) = 2
    /\ greenfieldClients[1].Height = greenfieldClients[2].Height
    /\ greenfieldClients[1].Height > FallBehindThreshold
    /\ mon.highestHeight = greenfieldClients[1].Height
    /\ clientIdx = 0

\* Where clientIdx may change: the monitor's switch step, the write lock held
\* and no reader inside, the foreground goroutine not moving.
ChangeOnlyInLockedSwitch ==
    /\ SwitchStep
    /\ mutex.writer /\ mutex.readers = 0
    /\ fg' = fg

\* C4 as stated: clientIdx changes only in the monitor's switch step under the
\* exclusive lock, never by a foreground operation, and only to a handle whose
\* recorded Height exceeds the previous active handle's by more than
\* FallBehindThreshold.
C4_ChangeOnlyToHigherByMargin ==
    [][clientIdx' # clientIdx =>
        /\ ChangeOnlyInLockedSwitch
        /\ greenfieldClients[clientIdx' + 1].Height
             > ActiveHeight + FallBehindThreshold]_vars

\* C4 amended: as C4, the margin being taken on the uint64 sum: the new
\* handle's Height exceeds (old Height + FallBehindThreshold) mod 2^64, which
\* is a lead above the threshold unless the sum wraps, and is never lower
\* than the old handle's Height.
C4_ChangeOnlyToHigherByUint64Margin ==
    [][clientIdx' # clientIdx =>
        /\ ChangeOnlyInLockedSwitch
        /\ greenfieldClients[clientIdx' + 1].Height
             > (ActiveHeight + FallBehindThreshold) % Modulus
        /\ (ActiveHeight + FallBehindThreshold < Modulus) =>
             greenfieldClients[clientIdx' + 1].Height
               > ActiveHeight + FallBehindThreshold
        /\ greenfieldClients[clientIdx' + 1].Height >= ActiveHeight]_vars

\* C4 witness: the switch step has moved clientIdx to the second handle while
\* holding the write lock, a foreground accessor waiting for its read lock.
C4_Witness ==
    /\ mon.pc = "unlock"
    /\ mutex.writer
    /\ clientIdx = 1
    /\ fg.pc = "rlock"
    /\ greenfieldClients[2].Height > greenfieldClients[1].Height + FallBehindThreshold

\* The foreground call of GetLatestBlockHeightWithRetry has returned.
HeightCallDone == fg.op = "GetLatestBlockHeightWithRetry" /\ fg.pc = "done"
Failed(status) == status.err # NoErr
AllFailed(trace) == \A k \in 1..Len(trace) : Failed(trace[k])

\* C5: a height query failing on attempts 1..N-1 and succeeding on attempt N
\* (1 <= N <= RtyAttNum) ends the call at attempt N: it returns a nil error
\* and the height of that attempt, after exactly N-1 OnRetry callbacks and N
\* executions of the query.
C5_RetrySuccessPath ==
    /\ \A k \in 1..Len(fg.trace) :
          ~Failed(fg.trace[k]) => (k = Len(fg.trace) /\ HeightCallDone)
    /\ (HeightCallDone /\ ~Failed(fg.trace[Len(fg.trace)])) =>
          LET N == Len(fg.trace) IN
          /\ 1 <= N /\ N <= RtyAttNum
          /\ fg.ret = <<Uint64(fg.trace[N].LatestBlockHeight), NoErr>>
          /\ fg.r.onRetry = N - 1
          /\ fg.r.calls = N

\* C5 witness: a call has returned after failing twice and then reading a
\* nonzero height on the third attempt.
C5_Witness ==
    /\ HeightCallDone
    /\ Len(fg.trace) = 3
    /\ ~Failed(fg.trace[3])
    /\ fg.trace[3].LatestBlockHeight = FallBehindThreshold + 1

\* C6: a height query failing on every attempt is executed exactly RtyAttNum
\* times, and the call then returns the error of the last attempt.
C6_RetryExhaustionPath ==
    /\ Len(fg.trace) <= RtyAttNum
    /\ fg.r.calls = Len(fg.trace)
    /\ (AllFailed(fg.trace) /\ Len(fg.trace) < RtyAttNum) => ~HeightCallDone
    /\ (AllFailed(fg.trace) /\ Len(fg.trace) = RtyAttNum) =>
          /\ HeightCallDone
          /\ fg.ret[2] = fg.trace[RtyAttNum].err
          /\ fg.ret[2] # NoErr

\* C6 witness: a call has returned after RtyAttNum failures, the last error
\* differing from the first.
C6_Witness ==
    /\ HeightCallDone
    /\ AllFailed(fg.trace)
    /\ Len(fg.trace) = RtyAttNum
    /\ fg.trace[1].err # fg.trace[RtyAttNum].err

\* The foreground call of QueryTendermintLightBlock has both answers.
LightBlockAnswered == fg.op = "QueryTendermintLightBlock" /\ Len(fg.trace) = 2
LightBlockFailedWith(errs) ==
    /\ phase = "running"
    /\ fg.pc = "done"
    /\ fg.ret[1] = NilBytes
    /\ fg.ret[2] \in errs

\* C7: an error of the validators query or of the commit query is returned to
\* the caller; when the validators query fails and the commit query succeeds
\* the call returns the validators' error, it neither builds a block nor
\* panics.
C7_EitherErrorPropagates ==
    (LightBlockAnswered /\ (Failed(fg.trace[1]) \/ Failed(fg.trace[2]))) =>
        /\ LightBlockFailedWith({fg.trace[k].err : k \in {j \in 1..2 : Failed(fg.trace[j])}})
        /\ ~Failed(fg.trace[2]) => fg.ret[2] = fg.trace[1].err

\* C8: when the validators query succeeds and the commit query fails, the call
\* returns the commit's error and nil bytes.
C8_CommitErrorNoBytes ==
    (LightBlockAnswered /\ ~Failed(fg.trace[1]) /\ Failed(fg.trace[2])) =>
        LightBlockFailedWith({fg.trace[2].err})

\* C8 witness: a call has returned after a validators answer and a failed commit.
C8_Witness ==
    /\ LightBlockAnswered
    /\ ~Failed(fg.trace[1])
    /\ Failed(fg.trace[2])
    /\ fg.pc = "done"

\* A foreground reader of the cache has returned.
CachedCallDone == fg.op \in CachedReaders /\ fg.pc = "done"
\* What a reader returns for the sequence held in the slice h.
ReturnOf(op, h) ==
    IF op = "QueryCachedLatestValidators" THEN <<h, NoErr>>
    ELSE <<BlsKeys(h, Garbage), NoErr>>

\* C9: once a refresh has stored a non-empty sequence S, failed refreshes
\* leave the cache equal to S, and a reader called afterwards returns S with a
\* nil error and without a remote fetch.
C9_StaleCacheServed ==
    /\ [][Stored => (Stored' /\ validators' = validators)]_vars
    /\ [](Stored => validators \in {SliceOf(a) : a \in ValidatorArrays \ {<<>>}})
    /\ []((CachedCallDone /\ fg.arg.stored) =>
            /\ Stored
            /\ fg.ret = ReturnOf(fg.op, validators)
            /\ fg.trace = <<>>)

\* C9 witness: a refresh failed after a two-validator sequence had been
\* stored, and a reader called after that failure has returned.
C9_Witness ==
    /\ CachedCallDone
    /\ fg.op = "QueryCachedLatestValidators"
    /\ fg.arg.stored
    /\ fg.arg.refreshErr # NoErr
    /\ validators.len = 2

\* C10: whatever the refresh loop is doing, the sequence a reader obtains is
\* the result of one refresh or of one on-demand fetch: the reader neither
\* faults nor returns a header (or keys) mixing two sequences.
C10_ReaderSeesOneRefresh ==
    /\ (fg.op \in CachedReaders) => fg.pc # "panic"
    /\ (CachedCallDone /\ fg.ret[2] = NoErr) =>
            \E a \in ValidatorArrays : fg.ret = ReturnOf(fg.op, SliceOf(a))

\* C13: construction aborts whenever the two address lists differ in length
\* (the query list shorter or longer); a pool that is built pairs rpcAddrs[i]
\* with grpcAddrs[i] at every i and uses up both lists.
C13_AbortOnLengthMismatch ==
    /\ (Len(config.RPCAddrs) # Len(config.GRPCAddrs)) => phase = "aborted"
    /\ phase # "aborted" =>
          /\ Len(greenfieldClients) = Len(config.RPCAddrs)
          /\ Len(greenfieldClients) = Len(config.GRPCAddrs)
          /\ \A i \in 1..Len(greenfieldClients) :
                /\ greenfieldClients[i].rpcClient = config.RPCAddrs[i]
                /\ greenfieldClients[i].Provider = config.RPCAddrs[i]
                /\ greenfieldClients[i].txClient = config.GRPCAddrs[i]
                /\ greenfieldClients[i].authClient = config.GRPCAddrs[i]

\* retry.Do returns to the collect step of the handle at mon.idx.
QueryReturns == mon.pc = "query" /\ mon'.pc = "collect"
\* The handles the current tick has polled, and those whose query failed.
Polled == 0 .. (mon.idx - 1)
FailedInTick == Polled \ hist.ok

\* C14: in the collect step, a height query that succeeds sets that handle's
\* Height to the returned height and its UpdatedAt to the current time; one
\* that fails after its retries leaves the handle as it was before the tick;
\* the pool keeps its handles and no other handle is touched.
C14_CollectUpdatesOnlyOnSuccess ==
    /\ [][IF QueryReturns
          THEN IF hist'.got[2] = NoErr
               THEN greenfieldClients' =
                       [greenfieldClients EXCEPT
                           ![mon.idx + 1].Height = hist'.got[1],
                           ![mon.idx + 1].UpdatedAt = now]
               ELSE greenfieldClients' = greenfieldClients
          ELSE greenfieldClients' = greenfieldClients]_vars
    /\ [](mon.pc # "sleep" =>
            /\ Len(greenfieldClients) = Len(hist.before)
            /\ \A i \in 1..Len(greenfieldClients) :
                  (i - 1 \in FailedInTick \/ i - 1 >= mon.idx) =>
                      greenfieldClients[i] = hist.before[i])

\* C14 witness: in one tick the first handle's query has failed, leaving the
\* Height and UpdatedAt of an earlier tick, and the second handle's query
\* has succeeded at a later time.
C14_Witness ==
    /\ mon.pc = "collect"
    /\ mon.idx = 2
    /\ hist.ok = {1}
    /\ greenfieldClients[1].Height = FallBehindThreshold + 1
    /\ greenfieldClients[1].UpdatedAt = 1
    /\ greenfieldClients[2].Height = FallBehindThreshold + 1
    /\ greenfieldClients[2].UpdatedAt = 2

\* C15: a tick never makes active a handle whose height query failed in that
\* tick: whenever clientIdx is reassigned, the Height of the handle it now
\* names was read successfully in the same tick, whatever the nodes answer
\* (a node may report less than it reported before).
C15_PromotedHandleWasRead ==
    [][clientIdx' # clientIdx =>
        (clientIdx' \in hist.ok /\ clientIdx' \notin FailedInTick)]_vars

\* The range loop of the tick is over.
CollectOver == mon.pc \in {"decide", "lock", "switch", "unlock", "sleep"}

\* C16: the alerts of a tick name only handles whose UpdatedAt, as the tick's
\* collect step left it, is older than DataSeedDenyServiceThreshold; hence no
\* handle whose height query succeeded in the tick is reported in that tick.
C16_AlertUsesCollectedUpdatedAt ==
    CollectOver =>
        \A i \in 1..Len(greenfieldClients) :
            /\ greenfieldClients[i].Provider \in alerts => DenyService(greenfieldClients[i])
            /\ i - 1 \in hist.ok => greenfieldClients[i].Provider \notin alerts

\* A pool of at least one handle is running.
PoolRuns == Running /\ greenfieldClients # <<>>
TickBegins == mon.pc = "collect" /\ mon.idx = 0
AllPolled == mon.idx = Len(greenfieldClients)

\* C17: polling failures never end or block the monitor loop.  No step of
\* the collect loop panics (the only panic of the loop is the decide step's
\* index into an empty pool); the loop index moves on only when a handle's
\* query has returned, failed or not, so the decide step is reached only
\* with every handle polled; and whatever the nodes answer, every tick that
\* begins reaches the decide step, ends, and is followed by another tick.
C17_PollingNeverStopsLoop ==
    /\ [](phase = "crashed" => (greenfieldClients = <<>> /\ mon.pc = "decide"))
    /\ [][mon'.idx # mon.idx =>
            \/ mon'.pc = "collect" /\ mon'.idx = 0 /\ mon.pc = "sleep"
            \/ QueryReturns /\ mon'.idx = mon.idx + 1]_vars
    /\ [](CollectOver /\ mon # MonIdle => AllPolled)
    /\ (PoolRuns /\ TickBegins) ~> (mon.pc = "decide" /\ AllPolled)
    /\ (PoolRuns /\ mon.pc = "decide") ~> (mon.pc = "sleep")
    /\ (PoolRuns /\ mon.pc = "sleep") ~> TickBegins

\* C17 witness: a tick in which every handle's query failed has polled both
\* handles and stands at the decide step.
C17_Witness ==
    /\ mon.pc = "decide"
    /\ Len(greenfieldClients) = 2
    /\ AllPolled
    /\ hist.ok = {}
    /\ hist.got[2] # NoErr

\* A tick has been completed and the next has not begun.
TickDone == Running /\ mon.pc = "sleep" /\ mon # MonIdle
\* In the tick, the node of handle i (0-based) answered with a Height above
\* the one recorded before the tick.
Advancing(i) ==
    i \in hist.ok /\ greenfieldClients[i + 1].Height > hist.before[i + 1].Height
\* The tick found the node of the handle active at its start unreachable or
\* not advancing, and the node of some other handle reachable and advancing.
ActiveAiling ==
    /\ ~Advancing(hist.active)
    /\ \E j \in 0 .. (Len(greenfieldClients) - 1) : j # hist.active /\ Advancing(j)

\* C12 as stated: when in a tick the active handle's node is unreachable or
\* does not advance while another handle's node is reachable and advancing,
\* the tick ends with clientIdx naming a handle that was read in the tick
\* and advances.
C12_HealedByNextTick ==
    (TickDone /\ ActiveAiling) => Advancing(clientIdx)

\* C12 amended: in such a tick the active handle is replaced exactly when the
\* uint64 sum of its recorded Height and FallBehindThreshold is below the
\* highest recorded Height, and then by the first handle holding that Height
\* (read in this tick or not); otherwise the ailing handle stays active.  A
\* handle that advanced in the tick to more than FallBehindThreshold above
\* the active handle's recorded Height (the sum not wrapping) forces the switch.
C12_HealedOnceLeadExceedsThreshold ==
    (TickDone /\ ActiveAiling) =>
        LET was == greenfieldClients[hist.active + 1].Height IN
        /\ IF (was + FallBehindThreshold) % Modulus < MaxHeight(greenfieldClients)
           THEN clientIdx = LowestMaxIdx(greenfieldClients)
           ELSE clientIdx = hist.active
        /\ \A j \in 0 .. (Len(greenfieldClients) - 1) :
              (/\ Advancing(j)
               /\ was + FallBehindThreshold < Modulus
               /\ greenfieldClients[j + 1].Height > was + FallBehindThreshold)
              => (clientIdx # hist.active
                  /\ ActiveHeight >= greenfieldClients[j + 1].Height)

\* C12 witness: the active first handle's query failed, the second handle
\* advanced to more than FallBehindThreshold above it, and the tick has
\* ended with the second handle active.
C12_Witness ==
    /\ TickDone
    /\ ActiveAiling
    /\ hist.active = 0
    /\ hist.ok = {1}
    /\ clientIdx = 1
    /\ greenfieldClients[1].Height = FallBehindThreshold
    /\ greenfieldClients[2].Height = Modulus - 2

\* C19: when a tick has ended, the active handle's recorded Height plus
\* FallBehindThreshold, as integers (no wrap), is at least the highest
\* recorded Height, for every int64 the nodes may report (a negative one is
\* recorded as a uint64 near 2^64); and right after a switch the active
\* handle holds the highest recorded Height.
C19_ActiveWithinThresholdAfterTick ==
    /\ TickDone =>
          ActiveHeight + FallBehindThreshold >= MaxHeight(greenfieldClients)
    /\ (Running /\ mon.pc = "unlock") =>
          ActiveHeight = MaxHeight(greenfieldClients)

\* C19 witness: a tick has ended with the second handle active at the top
\* of uint64 (its node reported -1), the first handle one below it: the sum
\* with FallBehindThreshold wraps for both.
C19_Witness ==
    /\ TickDone
    /\ Len(greenfieldClients) = 2
    /\ clientIdx = 1
    /\ ActiveHeight = Modulus - 1
    /\ greenfieldClients[1].Height = Modulus - 2
    /\ ActiveHeight + FallBehindThreshold >= Modulus

\* C20: within one QueryTendermintLightBlock call the validators query and
\* the commit query are answered by the same handle's node, whatever the
\* monitor does meanwhile: a light block that is returned holds a validator
\* set and a signed header of one node.
C20_LightBlockFromOneHandle ==
    /\ (LightBlockAnswered /\ ~Failed(fg.trace[1]) /\ ~Failed(fg.trace[2])) =>
          fg.trace[1].from = fg.trace[2].from
    /\ (fg.op = "QueryTendermintLightBlock" /\ fg.pc = "done" /\ fg.ret[2] = NoErr) =>
          fg.ret[1][2].from = fg.ret[1][3].from

\* What construction fixes of a handle: its channels and its Provider.
Fixed(client) ==
    [rpcClient |-> client.rpcClient, txClient |-> client.txClient,
     authClient |-> client.authClient, Provider |-> client.Provider]
FixedPart(clients) == [i \in 1..Len(clients) |-> Fixed(clients[i])]

\* C18: after construction no monitor tick, refresh or foreground call adds,
\* removes, reorders or replaces a handle: the pool keeps its length and
\* every handle its Provider and channels; only Height and UpdatedAt change,
\* and only in a step of the monitor loop's collect step.
C18_PoolFixedAfterConstruction ==
    /\ [](phase # "aborted" =>
            FixedPart(greenfieldClients) =
                FixedPart(initGreenfieldClients(config.RPCAddrs, config.GRPCAddrs)))
    /\ [][FixedPart(greenfieldClients') = FixedPart(greenfieldClients)]_vars
    /\ [][greenfieldClients' # greenfieldClients =>
            /\ QueryReturns
            /\ fg' = fg /\ rf' = rf /\ validators' = validators]_vars

\* C18 witness: the monitor has recorded a Height in the second handle, a
\* refresh has stored a validator, and a foreground height query through the
\* first handle has returned a height that the first handle does not hold.
C18_Witness ==
    /\ Len(greenfieldClients) = 2
    /\ greenfieldClients[2].Height = FallBehindThreshold + 1
    /\ greenfieldClients[1].Height = 0
    /\ validators.len = 1
    /\ HeightCallDone
    /\ fg.client = greenfieldClients[1].rpcClient
    /\ fg.ret = <<FallBehindThreshold + 1, NoErr>>

\* A call of QueryCachedLatestValidators has returned, the call before it
\* having been one too.
SecondCallDone ==
    /\ fg.op = "QueryCachedLatestValidators"
    /\ fg.pc = "done"
    /\ hist.prev # <<>>
    /\ hist.prev.op = "QueryCachedLatestValidators"

\* What happened from the beginning of the first call to now.
Between == hist.old \cup hist.cur

\* C11 as stated: two consecutive calls of QueryCachedLatestValidators, with
\* no store of the refresh loop to the cache between them (not even a
\* partial one) and the nodes' validator data unchanged, return equal
\* sequences, the cache empty or populated, whatever the monitor does
\* between the calls.
C11_TwoCallsEqual ==
    (SecondCallDone /\ "store" \notin Between) => fg.ret = hist.prev.ret

\* C11 amended: such two calls return equal sequences when the first call
\* read the cache (the second then reads it too, whatever the monitor does),
\* and, when the first call fetched on demand, provided the monitor has not
\* reassigned clientIdx from the first call's beginning to the second's return.
C11_TwoCallsEqualUnlessFailover ==
    (/\ SecondCallDone
     /\ "store" \notin Between
     /\ (hist.prev.fetched => "switch" \notin Between))
    => (fg.ret = hist.prev.ret /\ (fg.trace # <<>>) = hist.prev.fetched)

\* C11 witness: two calls have read the populated cache and returned the
\* same sequence although the monitor switched the active handle between them.
C11_Witness ==
    /\ SecondCallDone
    /\ "store" \notin Between
    /\ "switch" \in Between
    /\ ~hist.prev.fetched
    /\ fg.ret = hist.prev.ret
    /\ fg.ret[1].len > 0

====
